---- MODULE Spec2Model ----
(***************************************************************************)
(* Red-black tree of src/red_black_tree.py (classes Node and Tree).        *)
(*                                                                         *)
(* Every Node object, nil terminators included, is a record of the heap;   *)
(* references are indices into the heap (1, 2, ...) and Python's None is    *)
(* the value None, which is no index, key, colour or direction.  The       *)
(* methods of Tree are operators over a machine state                      *)
(*   m = [h |-> heap, root |-> self.__root, path, rot]                     *)
(* and every public call is one action that runs the whole method.        *)
(***************************************************************************)
EXTENDS Integers, Sequences, FiniteSets, TLC

\* ---- bounds of the model ------------------------------------------------
\* keys of the calls without payload (Spec)
MaxKey == 6
Keys == 1 .. MaxKey
\* keys of the calls with payload (SpecPayload)
MaxPayloadKey == 3
PayloadKeys == 1 .. MaxPayloadKey
\* payloads are opaque; two distinct ones tell keys apart
Payloads == {1, 2}

\* more iterations than any loop of a call needs on a tree of these keys; a
\* loop that reaches the limit is reported as "hang"
StepLimit == 3 * (MaxKey + 1)

\* keys and number of nodes of the trees handed to validate (SpecInspect)
MaxInspectKey == 4
InspectKeys == 1 .. MaxInspectKey
MaxInspectNodes == 4

\* ---- module constants (red_black_tree.py:16-19) ---------------------------
None == -1
RED == 0
BLACK == 1
LEFT == 0
RIGHT == 1
TREE_INSERT == 0
TREE_DELETE == 1
TREE_UPDATE == 2
PRE_ORDER == 0
IN_ORDER == 1
POST_ORDER == 2
LOWEST_KEY == 0
HIGHEST_KEY == 1
REPORTED == 0
ACTUAL == 1
\* no exception raised
NoError == "none"

VARIABLES heap, root, last, inserted, debug, vals, max_nodes
vars == <<heap, root, last, inserted, debug, vals, max_nodes>>
\* the bookkeeping of a debug tree: self.__debug, self.__vals (its keys) and
\* self.__max_nodes
dvars == <<debug, vals, max_nodes>>

\* ---- Node ---------------------------------------------------------------
\* Node(None, None, True): a nil terminator
NilNode(parent) ==
    [key |-> None, value |-> None, color |-> BLACK, parent |-> parent,
     child |-> [d \in {LEFT, RIGHT} |-> None]]

\* Node(key, value): a RED node at index n whose children are two fresh nil
\* terminators at n+1 and n+2.  The value attribute is set only "if value";
\* a node without the attribute has value None here.
NewNode(h, key, value) ==
    LET n == Len(h) + 1
    IN  h \o << [key |-> key, value |-> IF value # None /\ value # 0 THEN value ELSE None,
                 color |-> RED, parent |-> None,
                 child |-> [d \in {LEFT, RIGHT} |-> n + 1 + d]],
                NilNode(n), NilNode(n) >>

is_nil(h, n) == h[n].child[LEFT] = None /\ h[n].child[RIGHT] = None

\* the branch name added to m.path when the node about to be coloured RED is
\* a nil terminator
nil_red(m, n) == IF is_nil(m.h, n) THEN {"nil_red"} ELSE {}

\* the value of a result that is used more than once, computed once
The(S) == CHOOSE x \in S : TRUE

\* the branch name added to m.path when a case that rotates runs for the
\* second time in one call
again(m, case) == IF case \in m.path THEN {"rotating_case_repeated"} ELSE {}

\* one more iteration of a loop of the call; m.steps counts them
step(m) == [m EXCEPT !.steps = @ + 1]

\* the call stops in a loop: "hang" when the loop passes StepLimit, or the
\* exception raised by the use of a missing node
stop(m, why) == [m EXCEPT !.path = @ \cup {why}]

\* the exception, if any, that ended the loops of the call
stopped(m) ==
    IF "AttributeError" \in m.path THEN "AttributeError"
    ELSE IF "ValueError" \in m.path THEN "ValueError"
    ELSE IF "hang" \in m.path THEN "hang"
    ELSE NoError

\* p.child.index(x) on a missing p raises AttributeError, and ValueError
\* when x is in neither slot of p
unlinked(h, p, x) ==
    IF p = None THEN "AttributeError"
    ELSE IF \A d \in {LEFT, RIGHT} : h[p].child[d] # x THEN "ValueError"
    ELSE NoError

\* compare with the two directions exchanged
compare_swapped(k1, k2) ==
    IF k1 < k2 THEN RIGHT ELSE IF k1 > k2 THEN LEFT ELSE None

\* Node.compare on the keys of the two nodes
compare(k1, k2) ==
    IF k1 < k2 THEN LEFT ELSE IF k1 > k2 THEN RIGHT ELSE None

\* list.index: position of node x in the child list of node p
index(h, p, x) ==
    CHOOSE d \in {LEFT, RIGHT} :
        h[p].child[d] = x /\ (d = RIGHT => h[p].child[LEFT] # x)

\* ---- Tree.__rotate --------------------------------------------------------
\* a rotation that hands the focus the outer subtree of its child
rotate_outer_sub(m, nFocus, OBV) ==
    LET REV == 1 - OBV
        nChild == m.h[nFocus].child[REV]
        sub == m.h[nChild].child[REV]
        h1 == [m.h EXCEPT ![nFocus].child[REV] = sub]
        h2 == IF sub # None THEN [h1 EXCEPT ![sub].parent = nFocus] ELSE h1
        par == h2[nFocus].parent
        h3 == [h2 EXCEPT ![nChild].parent = par]
        m4 == IF par = None
              THEN [m EXCEPT !.h = h3, !.root = nChild]
              ELSE [m EXCEPT !.h = [h3 EXCEPT
                        ![par].child[index(h3, par, nFocus)] = nChild]]
        h5 == [m4.h EXCEPT ![nChild].child[OBV] = nFocus]
    IN  [m4 EXCEPT !.h = [h5 EXCEPT ![nFocus].parent = nChild],
                   !.rot = @ + 1]

\* a rotation that leaves the parent reference of the moved subtree alone
rotate_no_reparent(m, nFocus, OBV) ==
    LET REV == 1 - OBV
        nChild == m.h[nFocus].child[REV]
        sub == m.h[nChild].child[OBV]
        h1 == [m.h EXCEPT ![nFocus].child[REV] = sub]
        par == h1[nFocus].parent
        h3 == [h1 EXCEPT ![nChild].parent = par]
        m4 == IF par = None
              THEN [m EXCEPT !.h = h3, !.root = nChild]
              ELSE [m EXCEPT !.h = [h3 EXCEPT
                        ![par].child[index(h3, par, nFocus)] = nChild]]
        h5 == [m4.h EXCEPT ![nChild].child[OBV] = nFocus]
    IN  [m4 EXCEPT !.h = [h5 EXCEPT ![nFocus].parent = nChild],
                   !.rot = @ + 1]

\* m.path collects the names of the branches a call runs through and m.rot
\* counts its rotations; neither is read by the program.
rotate(m, nFocus, OBV) ==
    LET REV == 1 - OBV
        nChild == m.h[nFocus].child[REV]
        sub == m.h[nChild].child[OBV]
        h1 == [m.h EXCEPT ![nFocus].child[REV] = sub]
        h2 == IF sub # None THEN [h1 EXCEPT ![sub].parent = nFocus] ELSE h1
        par == h2[nFocus].parent
        h3 == [h2 EXCEPT ![nChild].parent = par]
        m4 == IF par = None
              THEN [m EXCEPT !.h = h3, !.root = nChild]
              ELSE [m EXCEPT !.h = [h3 EXCEPT
                        ![par].child[index(h3, par, nFocus)] = nChild]]
        h5 == [m4.h EXCEPT ![nChild].child[OBV] = nFocus]
    IN  [m4 EXCEPT !.h = [h5 EXCEPT ![nFocus].parent = nChild],
                   !.rot = @ + 1]

\* ---- Tree.find ----------------------------------------------------------
RECURSIVE find_walk(_, _, _)
find_walk(h, nFocus, key) ==
    IF is_nil(h, nFocus) THEN nFocus
    ELSE LET DIRECTION == compare(key, h[nFocus].key)
         IN  IF DIRECTION \notin {LEFT, RIGHT} THEN nFocus
             ELSE find_walk(h, h[nFocus].child[DIRECTION], key)

\* find that reports a key found by an insert search as a KeyError
find_duplicate_as_key_error(m, key, post_action) ==
    IF key \notin Int THEN [err |-> "TypeError", node |-> None]
    ELSE IF m.root = None THEN [err |-> "LookupError", node |-> None]
    ELSE LET nFocus == find_walk(m.h, m.root, key)
         IN  IF ~is_nil(m.h, nFocus) /\ post_action = TREE_INSERT
             THEN [err |-> "KeyError", node |-> None]
             ELSE IF is_nil(m.h, nFocus) /\ post_action # TREE_INSERT
             THEN [err |-> "LookupError", node |-> None]
             ELSE [err |-> NoError, node |-> nFocus]

\* find that treats the empty tree as an invalid argument
find_empty_as_type_error(m, key, post_action) ==
    IF key \notin Int \/ m.root = None
    THEN [err |-> "TypeError", node |-> None]
    ELSE LET nFocus == find_walk(m.h, m.root, key)
         IN  IF ~is_nil(m.h, nFocus) /\ post_action = TREE_INSERT
             THEN [err |-> "LookupError", node |-> None]
             ELSE IF is_nil(m.h, nFocus) /\ post_action # TREE_INSERT
             THEN [err |-> "LookupError", node |-> None]
             ELSE [err |-> NoError, node |-> nFocus]

find(m, key, post_action) ==
    IF key \notin Int THEN [err |-> "TypeError", node |-> None]
    ELSE IF m.root = None THEN [err |-> "LookupError", node |-> None]
    ELSE LET nFocus == find_walk(m.h, m.root, key)
         IN  IF ~is_nil(m.h, nFocus) /\ post_action = TREE_INSERT
             THEN [err |-> "LookupError", node |-> None]
             ELSE IF is_nil(m.h, nFocus) /\ post_action # TREE_INSERT
             THEN [err |-> "LookupError", node |-> None]
             ELSE [err |-> NoError, node |-> nFocus]

\* ---- Tree.__insert_fixup --------------------------------------------------
\* Case 1 that leaves the parent RED
insert_case1_parent_red(m, nParent, nUncle, nGrandpa) ==
    [m EXCEPT !.h[nUncle].color = BLACK,
              !.h[nGrandpa].color = RED,
              !.path = @ \cup {"insert_case1"}]

\* CLRS Case 1: the uncle is RED
insert_case1(m, nParent, nUncle, nGrandpa) ==
    [m EXCEPT !.h[nParent].color = BLACK,
              !.h[nUncle].color = BLACK,
              !.h[nGrandpa].color = RED,
              !.path = @ \cup {"insert_case1"} \cup nil_red(m, nGrandpa)]

\* CLRS Case 2: the focus is the inner child; the parent becomes the focus
insert_case2(m, nParent, DIR) ==
    rotate([m EXCEPT !.path = @ \cup {"insert_case2"}
                                \cup again(m, "insert_case2")],
           nParent, DIR)

\* Case 3 that leaves both colours alone, so that the loop goes on
insert_case3_no_recolour(m, nParent, nGrandpa, OPP) ==
    rotate([m EXCEPT !.path = @ \cup {"insert_case3"}], nGrandpa, OPP)

\* Case 3 that recolours the grandparent only and counts a repeat
insert_case3_parent_red(m, nParent, nGrandpa, OPP) ==
    rotate([m EXCEPT !.h[nGrandpa].color = RED,
                     !.path = @ \cup {"insert_case3"}
                                \cup again(m, "insert_case3")],
           nGrandpa, OPP)

\* Case 3 without the rotation
insert_case3_no_rotate(m, nParent, nGrandpa, OPP) ==
    [m EXCEPT !.h[nParent].color = BLACK,
              !.h[nGrandpa].color = RED,
              !.path = @ \cup {"insert_case3"}]

\* Case 3 that leaves the grandparent BLACK
insert_case3_grandpa_black(m, nParent, nGrandpa, OPP) ==
    rotate([m EXCEPT !.h[nParent].color = BLACK,
                     !.path = @ \cup {"insert_case3"}],
           nGrandpa, OPP)

\* CLRS Case 3
insert_case3(m, nParent, nGrandpa, OPP) ==
    rotate([m EXCEPT !.h[nParent].color = BLACK,
                     !.h[nGrandpa].color = RED,
                     !.path = @ \cup {"insert_case3"} \cup nil_red(m, nGrandpa)
                                \cup again(m, "insert_case3")],
           nGrandpa, OPP)

\* the while loop from its test on, and the assignment that follows it
RECURSIVE insert_fixup(_, _)
insert_fixup_loop(m0, nFocus) ==
    IF m0.h[nFocus].parent # None /\ m0.h[m0.h[nFocus].parent].color = RED
    THEN LET m == step(m0)
             nParent == m.h[nFocus].parent
             nGrandpa == m.h[nParent].parent
             DIR == index(m.h, nGrandpa, nParent)
             OPP == 1 - DIR
             nUncle == m.h[nGrandpa].child[OPP]
         IN  IF m.steps > StepLimit THEN stop(m, "hang")
             ELSE IF unlinked(m.h, nGrandpa, nParent) # NoError
             THEN stop(m, unlinked(m.h, nGrandpa, nParent))
             ELSE IF m.h[nUncle].color = RED
             THEN insert_fixup(insert_case1(m, nParent, nUncle, nGrandpa),
                               nGrandpa)
             ELSE LET case2 == m.h[nParent].child[OPP] = nFocus
                      nFocus2 == IF case2 THEN nParent ELSE nFocus
                      m2 == IF case2 THEN insert_case2(m, nParent, DIR) ELSE m
                      \* re-alias
                      nParent2 == IF case2 THEN m2.h[nFocus2].parent
                                  ELSE nParent
                      nGrandpa2 == IF case2 THEN m2.h[nParent2].parent
                                   ELSE nGrandpa
                  IN  insert_fixup(insert_case3(m2, nParent2, nGrandpa2, OPP),
                                   nFocus2)
    ELSE [m0 EXCEPT !.h[m0.root].color = BLACK]

\* a fixup that only forces the root BLACK
insert_fixup_root_only(m, nFocus) ==
    [m EXCEPT !.h[m.root].color = BLACK]

insert_fixup(m, nFocus) ==
    The({insert_fixup_loop(m0, nFocus) : m0 \in {m}})

\* ---- Tree.insert ----------------------------------------------------------
\* the new node takes the place of the nil terminator nFocus
graft(m, nNew, nFocus) ==
    LET par == m.h[nFocus].parent
        DIRECTION == index(m.h, par, nFocus)
    IN  [m EXCEPT !.h[nNew].parent = par,
                  !.h[par].child[DIRECTION] = nNew]

insert(m, key, value) ==
    IF key \notin Int THEN [m |-> m, err |-> "TypeError"]
    ELSE LET nNew == Len(m.h) + 1
             m1 == [m EXCEPT !.h = NewNode(m.h, key, value)]
         IN  IF m1.root = None
             THEN [m |-> [m1 EXCEPT !.h[nNew].color = BLACK, !.root = nNew,
                                    !.path = @ \cup {"insert_root"}],
                   err |-> NoError]
             ELSE LET f == find(m1, key, TREE_INSERT)
                  IN  IF f.err # NoError THEN [m |-> m1, err |-> f.err]
                      ELSE The({[m |-> m2, err |-> stopped(m2)] :
                                  m2 \in {insert_fixup(graft(m1, nNew, f.node),
                                                       nNew)}})

\* ---- Tree.__delete_fixup --------------------------------------------------
\* CLRS Case 1: the sibling is RED
delete_case1(m, nSibling, nParent, DIR) ==
    rotate([m EXCEPT !.h[nSibling].color = BLACK,
                     !.h[nParent].color = RED,
                     !.path = @ \cup {"delete_case1"} \cup nil_red(m, nParent)
                                \cup again(m, "delete_case1")],
           nParent, DIR)

\* Case 2 without the recolouring of the sibling
delete_case2_no_recolour(m, nSibling) ==
    [m EXCEPT !.path = @ \cup {"delete_case2"}]

\* Case 2 that colours the other child of the parent, the focus, RED
delete_case2_focus_red(m, nSibling) ==
    LET nParent == m.h[nSibling].parent
        nFocus == m.h[nParent].child[1 - index(m.h, nParent, nSibling)]
    IN  [m EXCEPT !.h[nFocus].color = RED,
                  !.path = @ \cup {"delete_case2"} \cup nil_red(m, nFocus)]

\* CLRS Case 2: both children of the sibling are BLACK
delete_case2(m, nSibling) ==
    [m EXCEPT !.h[nSibling].color = RED,
              !.path = @ \cup {"delete_case2"} \cup nil_red(m, nSibling)]

\* CLRS Case 3: the far child of the sibling is BLACK
delete_case3(m, nSibling, DIR, OPP) ==
    rotate([m EXCEPT !.h[m.h[nSibling].child[DIR]].color = BLACK,
                     !.h[nSibling].color = RED,
                     !.path = @ \cup {"delete_case3"} \cup nil_red(m, nSibling)
                                \cup again(m, "delete_case3")],
           nSibling, OPP)

\* Case 4 that leaves the far child of the sibling RED
delete_case4_far_red(m, nSibling, nParent, DIR, OPP) ==
    LET m2 == [m EXCEPT !.h[nSibling].color = m.h[nParent].color]
    IN  rotate([m2 EXCEPT !.h[nParent].color = BLACK,
                          !.path = @ \cup {"delete_case4"}],
               nParent, DIR)

\* CLRS Case 4
delete_case4(m, nSibling, nParent, DIR, OPP) ==
    LET m1 == [m EXCEPT !.h[m.h[nSibling].child[OPP]].color = BLACK]
        m2 == [m1 EXCEPT !.h[nSibling].color = m1.h[nParent].color]
    IN  rotate([m2 EXCEPT !.h[nParent].color = BLACK,
                          !.path = @ \cup {"delete_case4"}
                                     \cup again(m, "delete_case4")],
               nParent, DIR)

\* the while loop from its test on, and the assignment that follows it
RECURSIVE delete_fixup(_, _)
delete_fixup_loop(m0, nFocus) ==
    IF nFocus # m0.root /\ m0.h[nFocus].color = BLACK
    THEN LET m == step(m0)
             nParent == m.h[nFocus].parent
             DIR == index(m.h, nParent, nFocus)
             OPP == 1 - DIR
             nSibling == m.h[nParent].child[OPP]
             case1 == m.h[nSibling].color = RED
             m1 == IF case1 THEN delete_case1(m, nSibling, nParent, DIR)
                   ELSE m
             \* re-alias
             nSibling1 == IF case1 THEN m1.h[nParent].child[OPP] ELSE nSibling
         IN  IF m.steps > StepLimit THEN stop(m, "hang")
             ELSE IF unlinked(m.h, nParent, nFocus) # NoError
             THEN stop(m, unlinked(m.h, nParent, nFocus))
             \* nSibling.child[LEFT].color on a sibling without children
             ELSE IF nSibling1 = None \/ is_nil(m1.h, nSibling1)
             THEN stop(m1, "AttributeError")
             ELSE IF m1.h[m1.h[nSibling1].child[LEFT]].color = BLACK
                /\ m1.h[m1.h[nSibling1].child[RIGHT]].color = BLACK
             THEN delete_fixup(delete_case2(m1, nSibling1), nParent)
             ELSE LET case3 == m1.h[m1.h[nSibling1].child[OPP]].color = BLACK
                      m2 == IF case3
                            THEN delete_case3(m1, nSibling1, DIR, OPP)
                            ELSE m1
                      \* re-alias
                      nSibling2 == IF case3 THEN m2.h[nParent].child[OPP]
                                   ELSE nSibling1
                      m3 == delete_case4(m2, nSibling2, nParent, DIR, OPP)
                  IN  delete_fixup(m3, m3.root)
    ELSE [m0 EXCEPT !.h[nFocus].color = BLACK]

delete_fixup(m, nFocus) ==
    The({delete_fixup_loop(m0, nFocus) : m0 \in {m}})

\* ---- Tree.delete ----------------------------------------------------------
\* the successor search: the leftmost node below nReplacer
\* the result holds the node found and the call with its steps counted
RECURSIVE successor(_, _)
successor(m, nReplacer) ==
    IF m.h[nReplacer].child[LEFT] = None
    THEN [m |-> stop(m, "AttributeError"), node |-> nReplacer]
    ELSE IF ~is_nil(m.h, m.h[nReplacer].child[LEFT])
    THEN IF m.steps >= StepLimit
         THEN [m |-> stop(m, "hang"), node |-> nReplacer]
         ELSE successor(step(m), m.h[nReplacer].child[LEFT])
    ELSE [m |-> m, node |-> nReplacer]

\* promotion of the root's child without forcing it BLACK
promote_uncoloured(m, nRepChild) ==
    IF is_nil(m.h, nRepChild)
    THEN [m EXCEPT !.root = None, !.path = @ \cup {"root_emptied"}]
    ELSE [m EXCEPT !.root = nRepChild, !.path = @ \cup {"root_promoted"}]

\* the excised node is the root: its child, if real, becomes the BLACK root
promote(m, nRepChild) ==
    IF is_nil(m.h, nRepChild)
    THEN [m EXCEPT !.root = None, !.path = @ \cup {"root_emptied"}]
    ELSE [m EXCEPT !.root = nRepChild,
                   !.h[nRepChild].color = BLACK,
                   !.path = @ \cup {"root_promoted"}]

\* the splice without the copy of the successor's key
excise_no_key_copy(m, nFocus, nReplacer, nRepChild) ==
    LET par == m.h[nReplacer].parent
    IN  [m EXCEPT !.h[par].child[index(m.h, par, nReplacer)] = nRepChild]

\* the child takes the place of the excised node, whose key goes to the focus
excise(m, nFocus, nReplacer, nRepChild) ==
    LET par == m.h[nReplacer].parent
        m2 == [m EXCEPT !.h[par].child[index(m.h, par, nReplacer)] = nRepChild]
    IN  [m2 EXCEPT !.h[nFocus].key = m2.h[nReplacer].key]

delete(m, key) ==
    LET f == find(m, key, TREE_DELETE)
    IN  IF f.err # NoError THEN [m |-> m, err |-> f.err]
        ELSE
        LET nFocus == f.node
            two == ~is_nil(m.h, m.h[nFocus].child[LEFT])
                   /\ ~is_nil(m.h, m.h[nFocus].child[RIGHT])
            found == IF two THEN successor(m, m.h[nFocus].child[RIGHT])
                     ELSE [m |-> m, node |-> nFocus]
            nReplacer == found.node
            nRepChild == IF ~is_nil(m.h, m.h[nReplacer].child[LEFT])
                         THEN m.h[nReplacer].child[LEFT]
                         ELSE m.h[nReplacer].child[RIGHT]
            m1 == [found.m EXCEPT
                     !.h[nRepChild].parent = m.h[nReplacer].parent,
                     !.path = IF two THEN @ \cup {"successor"} ELSE @]
        IN  IF stopped(found.m) # NoError
            THEN [m |-> found.m, err |-> stopped(found.m)]
            ELSE IF nReplacer = m1.root
            THEN [m |-> promote(m1, nRepChild), err |-> NoError]
            ELSE LET m3 == excise(m1, nFocus, nReplacer, nRepChild)
                 IN  IF m3.h[nReplacer].color = BLACK
                     THEN The({[m |-> m4, err |-> stopped(m4)] :
                                 m4 \in {delete_fixup(
                                   [m3 EXCEPT !.path = @ \cup {"excised_black"}],
                                   nRepChild)}})
                     ELSE [m |-> [m3 EXCEPT !.path = @ \cup {"excised_red"}],
                           err |-> NoError]

\* ---- Tree.update ----------------------------------------------------------
\* update that writes the payload to the root instead of the node found
update_at_root(m, key, value) ==
    LET f == find(m, key, TREE_UPDATE)
    IN  IF f.err # NoError THEN [m |-> m, err |-> f.err]
        ELSE [m |-> [m EXCEPT !.h[m.root].value = value], err |-> NoError]

update(m, key, value) ==
    LET f == find(m, key, TREE_UPDATE)
    IN  IF f.err # NoError THEN [m |-> m, err |-> f.err]
        ELSE [m |-> [m EXCEPT !.h[f.node].value = value], err |-> NoError]

\* ---- Tree.boundary --------------------------------------------------------
RECURSIVE boundary_walk(_, _, _, _)
boundary_walk(h, curr, prev, direction) ==
    IF curr # None
    THEN boundary_walk(h, h[curr].child[direction], curr, direction)
    ELSE prev

boundary(m, find_option) ==
    IF m.root = None THEN [err |-> NoError, node |-> None]
    ELSE IF find_option \notin {LOWEST_KEY, HIGHEST_KEY}
    THEN [err |-> "KeyError", node |-> None]
    ELSE LET direction == IF find_option = LOWEST_KEY THEN LEFT ELSE RIGHT
         IN  [err |-> NoError,
              node |-> boundary_walk(m.h, m.root, None, direction)]

\* ---- Tree.traverse --------------------------------------------------------
\* The loop state s holds curr, prev, depth and the calls made so far.
\* callback(curr, depth): the callback of display appends the node's key,
\* depth and colour to a list
callback(h, s, curr, depth) ==
    [s EXCEPT !.calls = Append(@, [key |-> h[curr].key, depth |-> depth,
                                   color |-> h[curr].color])]

\* first branch: curr was entered from its parent
descend(h, s, order) ==
    LET curr == s.curr
        s0 == [s EXCEPT !.depth = @ + 1, !.prev = curr]
        s1 == IF order = PRE_ORDER THEN callback(h, s0, curr, s0.depth) ELSE s0
    IN  IF ~is_nil(h, h[curr].child[LEFT])
        THEN [s1 EXCEPT !.curr = h[curr].child[LEFT]]
        ELSE LET s2 == IF order = IN_ORDER
                       THEN callback(h, s1, curr, s1.depth) ELSE s1
             IN  IF ~is_nil(h, h[curr].child[RIGHT])
                 THEN [s2 EXCEPT !.curr = h[curr].child[RIGHT]]
                 ELSE LET s3 == IF order = POST_ORDER
                                THEN callback(h, s2, curr, s2.depth) ELSE s2
                      IN  [s3 EXCEPT !.curr = h[curr].parent]

\* the second branch without its IN_ORDER callback
from_left_silent(h, s, order) ==
    LET curr == s.curr
        s0 == [s EXCEPT !.depth = @ - 1, !.prev = curr]
    IN  IF ~is_nil(h, h[curr].child[RIGHT])
        THEN [s0 EXCEPT !.curr = h[curr].child[RIGHT]]
        ELSE LET s3 == IF order = POST_ORDER
                       THEN callback(h, s0, curr, s0.depth) ELSE s0
             IN  [s3 EXCEPT !.curr = h[curr].parent]

\* second branch: back from the LEFT child
from_left(h, s, order) ==
    LET curr == s.curr
        s0 == [s EXCEPT !.depth = @ - 1, !.prev = curr]
        s2 == IF order = IN_ORDER THEN callback(h, s0, curr, s0.depth) ELSE s0
    IN  IF ~is_nil(h, h[curr].child[RIGHT])
        THEN [s2 EXCEPT !.curr = h[curr].child[RIGHT]]
        ELSE LET s3 == IF order = POST_ORDER
                       THEN callback(h, s2, curr, s2.depth) ELSE s2
             IN  [s3 EXCEPT !.curr = h[curr].parent]

\* the third branch without the decrement of depth
from_right_same_depth(h, s, order) ==
    LET curr == s.curr
        s0 == [s EXCEPT !.prev = curr]
        s3 == IF order = POST_ORDER THEN callback(h, s0, curr, s0.depth) ELSE s0
    IN  [s3 EXCEPT !.curr = h[curr].parent]

\* third branch: back from the RIGHT child
from_right(h, s, order) ==
    LET curr == s.curr
        s0 == [s EXCEPT !.depth = @ - 1, !.prev = curr]
        s3 == IF order = POST_ORDER THEN callback(h, s0, curr, s0.depth) ELSE s0
    IN  [s3 EXCEPT !.curr = h[curr].parent]

\* the while loop; hang is TRUE when an iteration takes none of the three
\* branches, so that the loop would repeat it for ever
RECURSIVE traverse_loop(_, _, _)
traverse_loop(h, s0, order) ==
    LET s == [s0 EXCEPT !.steps = @ + 1]
    IN
    IF s0.curr = None THEN s0
    ELSE IF s.steps > StepLimit THEN [s EXCEPT !.hang = TRUE]
    ELSE IF s.prev = None \/ s.curr = h[s.prev].child[LEFT]
                          \/ s.curr = h[s.prev].child[RIGHT]
    THEN traverse_loop(h, descend(h, s, order), order)
    ELSE IF s.prev = h[s.curr].child[LEFT]
    THEN traverse_loop(h, from_left(h, s, order), order)
    ELSE IF s.prev = h[s.curr].child[RIGHT]
    THEN traverse_loop(h, from_right(h, s, order), order)
    ELSE [s EXCEPT !.hang = TRUE]

traverse(m, process_order) ==
    IF m.root = None THEN [calls |-> <<>>, hang |-> FALSE]
    ELSE LET s == traverse_loop(m.h,
                                [curr |-> m.root, prev |-> None, depth |-> 0,
                                 calls |-> <<>>, hang |-> FALSE,
                                 steps |-> 0],
                                process_order)
         IN  [calls |-> s.calls, hang |-> s.hang]

\* ---- Tree.__inspect --------------------------------------------------------
\* the tests on the children of nFocus: the RIGHT child is looked at only
\* when the LEFT child is a nil terminator (elif)
inspect_children(h, nFocus) ==
    LET nLeft == h[nFocus].child[LEFT]
        nRight == h[nFocus].child[RIGHT]
    IN  IF ~is_nil(h, nLeft)
        THEN IF h[nFocus].color = RED /\ h[nLeft].color = RED
             THEN "ValueError"
             ELSE IF compare(h[nFocus].key, h[nLeft].key) = LEFT
             THEN "KeyError"
             ELSE NoError
        ELSE IF ~is_nil(h, nRight)
        THEN IF h[nFocus].color = RED /\ h[nRight].color = RED
             THEN "ValueError"
             ELSE IF compare(h[nFocus].key, h[nRight].key) = RIGHT
             THEN "KeyError"
             ELSE NoError
        ELSE NoError

\* the value returned for nFocus from the black heights of its children
inspect_height(h, nFocus, bl, br) ==
    IF bl = 0 /\ br = 0 THEN 0
    ELSE IF h[nFocus].color = RED THEN bl
    ELSE bl + 1

\* d holds self.__vals and self.__max_nodes; the result holds them as the
\* call leaves them, the exception raised (err) and the value returned (ret)
RECURSIVE inspect(_, _, _)
inspect(m, d, nFocus) ==
    IF is_nil(m.h, nFocus) THEN [err |-> NoError, ret |-> 1, d |-> d]
    ELSE
    LET d1 == [d EXCEPT !.max_nodes[ACTUAL] = @ + 1]
    IN  IF m.h[nFocus].key \in d1.vals
        THEN [err |-> "ReferenceError", ret |-> 0, d |-> d1]
        ELSE
        LET d2 == [d1 EXCEPT !.vals = @ \cup {m.h[nFocus].key}]
            e == inspect_children(m.h, nFocus)
        IN  IF e # NoError THEN [err |-> e, ret |-> 0, d |-> d2]
            ELSE
            LET l == inspect(m, d2, m.h[nFocus].child[LEFT])
            IN  IF l.err # NoError THEN l
                ELSE
                LET r == inspect(m, l.d, m.h[nFocus].child[RIGHT])
                IN  IF r.err # NoError THEN r
                    ELSE IF l.ret > 0 /\ r.ret > 0 /\ l.ret # r.ret
                    THEN [err |-> "ValueError", ret |-> 0, d |-> r.d]
                    ELSE IF nFocus = m.root
                            /\ r.d.max_nodes[REPORTED] # r.d.max_nodes[ACTUAL]
                    THEN [err |-> "ArithmeticError", ret |-> 0, d |-> r.d]
                    ELSE [err |-> NoError,
                          ret |-> inspect_height(m.h, nFocus, l.ret, r.ret),
                          d |-> r.d]

\* ---- Tree.validate --------------------------------------------------------
validate(m, d, pre_action) ==
    IF ~d.debug \/ m.root = None THEN [err |-> NoError, d |-> d]
    ELSE LET d1 == [d EXCEPT !.vals = {}, !.max_nodes[ACTUAL] = 0]
             d2 == IF pre_action = TREE_INSERT
                   THEN [d1 EXCEPT !.max_nodes[REPORTED] = @ + 1]
                   ELSE IF pre_action = TREE_DELETE
                   THEN [d1 EXCEPT !.max_nodes[REPORTED] = @ - 1]
                   ELSE d1
             r == inspect(m, d2, m.root)
         IN  [err |-> r.err, d |-> r.d]

\* ---- object identity and garbage ----------------------------------------
\* The objects alive after a call are those the root reaches through child
\* and parent references; an object's address is not observable, so the
\* live objects are renumbered in the order a depth-first walk from the
\* root meets them.
Range(seq) == {seq[i] : i \in 1 .. Len(seq)}

RECURSIVE live(_, _, _)
live(h, stack, seq) ==
    IF stack = <<>> THEN seq
    ELSE LET n == Head(stack)
         IN  IF n = None \/ n \in Range(seq)
             THEN live(h, Tail(stack), seq)
             ELSE live(h, <<h[n].child[LEFT], h[n].child[RIGHT], h[n].parent>>
                          \o Tail(stack),
                       Append(seq, n))

collect(m) ==
    LET seq == live(m.h, <<m.root>>, <<>>)
        ren(x) == IF x = None THEN None
                  ELSE CHOOSE i \in 1 .. Len(seq) : seq[i] = x
    IN  [h |-> [i \in 1 .. Len(seq) |->
                  [m.h[seq[i]] EXCEPT
                     !.parent = ren(@),
                     !.child = [d \in {LEFT, RIGHT} |-> ren(@[d])]]],
         root |-> ren(m.root)]

\* ---- the tree as seen by a caller ---------------------------------------
\* the Tree object
M == [h |-> heap, root |-> root, path |-> {}, rot |-> 0, steps |-> 0]

\* what a caller reads from a returned node (<<>> for None)
View(h, n) ==
    IF n = None THEN <<>>
    ELSE << [key |-> h[n].key, value |-> h[n].value, color |-> h[n].color] >>

\* ---- the calls ----------------------------------------------------------
Init ==
    /\ heap = <<>>
    /\ root = None
    /\ last = [op |-> "init", arg |-> None, err |-> NoError, ret |-> <<>>,
               path |-> {}]
    /\ inserted = {}
    /\ debug = FALSE
    /\ vals = {}
    /\ max_nodes = [c \in {REPORTED, ACTUAL} |-> 0]

Insert(key, value) ==
    \E r \in {insert(M, key, value)} : \E c \in {collect(r.m)} :
        /\ heap' = c.h
        /\ root' = c.root
        /\ last' = [op |-> "insert", arg |-> key, err |-> r.err, ret |-> <<>>,
                    path |-> r.m.path]
        /\ inserted' = IF r.err = NoError THEN inserted \cup {key} ELSE inserted
        /\ UNCHANGED dvars

Delete(key) ==
    \E r \in {delete(M, key)} : \E c \in {collect(r.m)} :
        /\ heap' = c.h
        /\ root' = c.root
        /\ last' = [op |-> "delete", arg |-> key, err |-> r.err, ret |-> <<>>,
                    path |-> r.m.path]
        /\ inserted' = IF r.err = NoError THEN inserted \ {key} ELSE inserted
        /\ UNCHANGED dvars

Update(key, value) ==
    \E r \in {update(M, key, value)} : \E c \in {collect(r.m)} :
        /\ heap' = c.h
        /\ root' = c.root
        /\ last' = [op |-> "update", arg |-> key, err |-> r.err, ret |-> <<>>,
                    path |-> r.m.path]
        /\ UNCHANGED <<inserted, dvars>>

Find(key) ==
    LET r == find(M, key, None)
    IN  /\ last' = [op |-> "find", arg |-> key, err |-> r.err,
                    ret |-> View(heap, r.node), path |-> {}]
        /\ UNCHANGED <<heap, root, inserted, dvars>>

Boundary(find_option) ==
    LET r == boundary(M, find_option)
    IN  /\ last' = [op |-> "boundary", arg |-> find_option, err |-> r.err,
                    ret |-> View(heap, r.node), path |-> {}]
        /\ UNCHANGED <<heap, root, inserted, dvars>>

Traverse(process_order) ==
    LET r == traverse(M, process_order)
    IN  /\ last' = [op |-> "traverse", arg |-> process_order,
                    err |-> IF r.hang THEN "hang" ELSE NoError,
                    ret |-> r.calls, path |-> {}]
        /\ UNCHANGED <<heap, root, inserted, dvars>>

\* the debug fields of the Tree object
D == [debug |-> debug, vals |-> vals, max_nodes |-> max_nodes]

Validate(pre_action) ==
    LET r == validate(M, D, pre_action)
    IN  /\ vals' = r.d.vals
        /\ max_nodes' = r.d.max_nodes
        /\ last' = [op |-> "validate", arg |-> pre_action, err |-> r.err,
                    ret |-> <<>>, path |-> {}]
        /\ UNCHANGED <<heap, root, inserted, debug>>

\* insert(key), delete(key) and the read-only calls
Next ==
    \/ \E key \in Keys : Insert(key, None)
    \/ \E key \in Keys : Delete(key)
    \/ \E key \in Keys : Find(key)
    \/ \E find_option \in {LOWEST_KEY, HIGHEST_KEY, HIGHEST_KEY + 1} :
          Boundary(find_option)
    \/ \E process_order \in {PRE_ORDER, IN_ORDER, POST_ORDER} :
          Traverse(process_order)

Spec == Init /\ [][Next]_vars

\* insert(key, value), update(key, value), delete(key) and find(key)
NextPayload ==
    \/ \E key \in PayloadKeys, value \in Payloads \cup {None} :
          Insert(key, value)
    \/ \E key \in PayloadKeys : Delete(key)
    \/ \E key \in PayloadKeys, value \in Payloads : Update(key, value)
    \/ \E key \in PayloadKeys : Find(key)

SpecPayload == Init /\ [][NextPayload]_vars

\* random_seed_tests: a fresh debug tree; distinct keys are inserted, then
\* keys of the tree are deleted, and validate follows every insert and every
\* delete
InitTest ==
    /\ heap = <<>>
    /\ root = None
    /\ last = [op |-> "init", arg |-> None, err |-> NoError, ret |-> <<>>,
               path |-> {}]
    /\ inserted = {}
    /\ debug = TRUE
    /\ vals = {}
    /\ max_nodes = [c \in {REPORTED, ACTUAL} |-> 0]

\* the last call was validate and raised nothing
Validated == last.op = "validate" /\ last.err = NoError

TestInsert(key) ==
    /\ last.op = "init" \/ (Validated /\ last.arg = TREE_INSERT)
    /\ key \notin inserted
    /\ Insert(key, None)

TestDelete(key) ==
    /\ Validated
    /\ key \in inserted
    /\ Delete(key)

TestValidate ==
    \/ last.op = "insert" /\ Validate(TREE_INSERT)
    \/ last.op = "delete" /\ Validate(TREE_DELETE)

NextTest ==
    \/ \E key \in Keys : TestInsert(key)
    \/ \E key \in Keys : TestDelete(key)
    \/ TestValidate

SpecTest == InitTest /\ [][NextTest]_vars

\* inserts of distinct keys into an empty tree, and traversals
NextInsert ==
    \/ \E key \in Keys \ inserted : Insert(key, None)
    \/ \E process_order \in {PRE_ORDER, IN_ORDER, POST_ORDER} :
          Traverse(process_order)

SpecInsert == Init /\ [][NextInsert]_vars

\* validate on any small debug tree, valid or not.  Such trees arise when a
\* caller writes to the nodes that find and boundary hand out.  A tree is
\* drawn as a set P of positions (1 the root, 2p and 2p+1 the children of
\* p), a key and a colour for each position, and a reported node count.
Positions == 1 .. 7

Shapes ==
    {P \in SUBSET Positions :
        /\ Cardinality(P) <= MaxInspectNodes
        /\ \A p \in P : p = 1 \/ (p \div 2) \in P}

\* the heap of the tree drawn on P: a real node at each position of P and a
\* nil terminator at each other position
Drawn(P, key, color) ==
    [q \in 1 .. 15 |->
        IF q \in P
        THEN [key |-> key[q], value |-> None, color |-> color[q],
              parent |-> IF q = 1 THEN None ELSE q \div 2,
              child |-> [d \in {LEFT, RIGHT} |-> 2 * q + d]]
        ELSE NilNode(q \div 2)]

InitInspect ==
    \E P \in Shapes :
      \E key \in [P -> InspectKeys], color \in [P -> {RED, BLACK}],
         excess \in {0, 1} :
        LET c == collect([h |-> Drawn(P, key, color),
                          root |-> IF P = {} THEN None ELSE 1])
        IN  /\ heap = c.h
            /\ root = c.root
            /\ last = [op |-> "init", arg |-> None, err |-> NoError,
                       ret |-> <<>>, path |-> {}]
            /\ inserted = {key[p] : p \in P}
            /\ debug = TRUE
            /\ vals = {}
            /\ max_nodes = [c2 \in {REPORTED, ACTUAL} |->
                              IF c2 = REPORTED THEN Cardinality(P) + excess
                              ELSE 0]

NextInspect == Validate(None)

SpecInspect == InitInspect /\ [][NextInspect]_vars

\* a debug tree whose caller follows every successful insert by
\* validate(TREE_INSERT) and every successful delete by
\* validate(TREE_DELETE), inserts and deletes in any order; the run ends
\* when validate raises
DebugInsert(key) ==
    /\ last.op = "init" \/ Validated
    /\ key \notin inserted
    /\ Insert(key, None)

DebugDelete(key) ==
    /\ Validated
    /\ key \in inserted
    /\ Delete(key)

NextDebug ==
    \/ \E key \in Keys : DebugInsert(key)
    \/ \E key \in Keys : DebugDelete(key)
    \/ TestValidate

SpecDebug == InitTest /\ [][NextDebug]_vars

\* one rotation on a tree made by inserts and deletes: __rotate(nFocus,
\* direction) for a real node nFocus whose child on the other side is a real
\* node.  The nodes keep their places in the heap, so that the tree before
\* and the tree after can be compared node by node; no call follows.
Rotate(nFocus, OBV) ==
    LET m2 == rotate(M, nFocus, OBV)
    IN  /\ nFocus \in DOMAIN heap
        /\ ~is_nil(heap, nFocus)
        /\ ~is_nil(heap, heap[nFocus].child[1 - OBV])
        /\ heap' = m2.h
        /\ root' = m2.root
        /\ last' = [op |-> "rotate", arg |-> nFocus, err |-> NoError,
                    ret |-> <<>>,
                    path |-> IF OBV = LEFT THEN {"rotate_left"}
                             ELSE {"rotate_right"}]
        /\ UNCHANGED <<inserted, dvars>>

NextRotate ==
    /\ last.op # "rotate"
    /\ \/ \E key \in Keys : Insert(key, None)
       \/ \E key \in Keys : Delete(key)
       \/ \E nFocus \in 1 .. 3 * MaxKey, OBV \in {LEFT, RIGHT} :
             Rotate(nFocus, OBV)

SpecRotate == Init /\ [][NextRotate]_vars

\* ---- the tree below a node ------------------------------------------------
\* the real nodes of the subtree of n, following child references
RECURSIVE subtree(_, _)
subtree(h, n) ==
    IF n = None THEN {}
    ELSE IF is_nil(h, n) THEN {}
    ELSE {n} \cup subtree(h, h[n].child[LEFT]) \cup subtree(h, h[n].child[RIGHT])

KeysIn(h, n) == {h[x].key : x \in subtree(h, n)}

\* the keys currently in the tree
TreeKeys == KeysIn(heap, root)

\* the numbers of BLACK nodes on the downward paths from n to a nil
\* terminator, n and the terminator included
RECURSIVE black_counts(_, _)
black_counts(h, n) ==
    LET own == IF h[n].color = BLACK THEN 1 ELSE 0
    IN  IF is_nil(h, n) THEN {own}
        ELSE {c + own : c \in black_counts(h, h[n].child[LEFT])
                               \cup black_counts(h, h[n].child[RIGHT])}

\* the last call was a successful delete
Deleted == last.op = "delete" /\ last.err = NoError

\* ---- C1 -------------------------------------------------------------------
\* C1: after any sequence of successful insert and delete calls, strict
\* binary-search-tree order holds: for every real node, every key in its LEFT
\* subtree is less than its key and every key in its RIGHT subtree is
\* greater, and no key occurs twice.
C1_SearchTreeOrder ==
    /\ \A n \in subtree(heap, root) :
          /\ \A k \in KeysIn(heap, heap[n].child[LEFT]) : k < heap[n].key
          /\ \A k \in KeysIn(heap, heap[n].child[RIGHT]) : k > heap[n].key
    /\ Cardinality(TreeKeys) = Cardinality(subtree(heap, root))

\* a delete that excised the successor of a node with two real children and
\* rebalanced, leaving a root with keys on both sides
C1_Witness ==
    /\ Deleted
    /\ {"successor", "excised_black"} \subseteq last.path
    /\ last.path \cap {"delete_case1", "delete_case3", "delete_case4"} # {}
    /\ KeysIn(heap, heap[root].child[LEFT]) # {}
    /\ KeysIn(heap, heap[root].child[RIGHT]) # {}

\* ---- C2 -------------------------------------------------------------------
\* C2: after any sequence of successful insert and delete calls, no RED node
\* in the tree has a RED child.
C2_NoRedRed ==
    \A n \in subtree(heap, root) :
        heap[n].color = RED =>
            /\ heap[heap[n].child[LEFT]].color = BLACK
            /\ heap[heap[n].child[RIGHT]].color = BLACK

\* an insert whose fixup recoloured (case 1) and left a RED node with two
\* real children
C2_Witness ==
    /\ last.op = "insert"
    /\ "insert_case1" \in last.path
    /\ \E n \in subtree(heap, root) :
          /\ heap[n].color = RED
          /\ ~is_nil(heap, heap[n].child[LEFT])
          /\ ~is_nil(heap, heap[n].child[RIGHT])

\* ---- C3 -------------------------------------------------------------------
\* C3: after any sequence of successful insert and delete calls, for every
\* node in the tree all downward paths from that node to a nil terminator
\* contain the same number of BLACK nodes.
C3_BlackHeight ==
    \A n \in subtree(heap, root) : Cardinality(black_counts(heap, n)) = 1

\* a delete of a BLACK node whose fixup moved the deficiency upwards, in a
\* tree that still has a BLACK node below the root
C3_Witness ==
    /\ Deleted
    /\ {"excised_black", "delete_case2"} \subseteq last.path
    /\ \E n \in subtree(heap, root) : n # root /\ heap[n].color = BLACK

\* ---- C4 -------------------------------------------------------------------
\* C4: after any sequence of successful insert and delete calls, the root is
\* either absent (empty tree) or a real node coloured BLACK, also when delete
\* removes the root and promotes its only child, and when no delete-fixup is
\* run because the excised node was RED.
C4_RootBlack ==
    root # None => ~is_nil(heap, root) /\ heap[root].color = BLACK

\* a delete that removed the root and promoted its only child
C4_Witness == Deleted /\ "root_promoted" \in last.path /\ root # None

\* ---- C5 -------------------------------------------------------------------
\* C5: after any sequence of insert and delete calls, successful or failing,
\* find(K) with lookup intent returns a real node with key K if and only if
\* K has been successfully inserted and not successfully deleted since;
\* otherwise it fails (LookupError).
C5_FindIffInserted ==
    last.op = "find" =>
        IF last.arg \in inserted
        THEN /\ last.err = NoError
             /\ Len(last.ret) = 1
             /\ last.ret[1].key = last.arg
        ELSE /\ last.err = "LookupError"
             /\ last.ret = <<>>

\* a find that succeeds in a tree of several keys from which other keys are
\* absent
C5_Witness ==
    /\ last.op = "find"
    /\ last.err = NoError
    /\ Cardinality(inserted) >= 3
    /\ Cardinality(inserted) < MaxKey

\* ---- C6 -------------------------------------------------------------------
\* C6: for every tree reachable by insert/delete, traverse with order
\* IN_ORDER invokes the callback exactly once for each key currently in the
\* tree and for no other node, and the keys are delivered in strictly
\* ascending order.
C6_InOrder ==
    (last.op = "traverse" /\ last.arg = IN_ORDER) =>
        /\ last.err = NoError
        /\ Len(last.ret) = Cardinality(TreeKeys)
        /\ {last.ret[i].key : i \in 1 .. Len(last.ret)} = TreeKeys
        /\ \A i, j \in 1 .. Len(last.ret) :
              i < j => last.ret[i].key < last.ret[j].key

\* an in-order traversal of a tree whose root has both subtrees, one of them
\* two levels deep
C6_Witness ==
    /\ last.op = "traverse"
    /\ last.arg = IN_ORDER
    /\ Len(last.ret) >= 5
    /\ KeysIn(heap, heap[root].child[LEFT]) # {}
    /\ KeysIn(heap, heap[root].child[RIGHT]) # {}

\* ---- C7 -------------------------------------------------------------------
\* C7: insert(K) when K is already present in the tree fails with the
\* DuplicateKey error (LookupError) and leaves the tree unchanged: the same
\* root, shape, keys, colours and parent/child links.
C7_DuplicateInsert ==
    [][(last'.op = "insert" /\ last'.arg \in TreeKeys) =>
          /\ last'.err = "LookupError"
          /\ heap' = heap
          /\ root' = root]_vars

\* a failed insert into a tree of several keys
C7_Witness ==
    /\ last.op = "insert"
    /\ last.err = "LookupError"
    /\ last.arg \in TreeKeys
    /\ Cardinality(TreeKeys) >= 3

\* ---- C8 -------------------------------------------------------------------
\* C8: find(K), delete(K) and update(K, p) for an integer K that is not in
\* the tree fail with NotFound (LookupError, never TypeError) and leave the
\* tree unchanged, also when the tree is empty.
C8_NotFound ==
    [][(last'.op \in {"find", "delete", "update"} /\ last'.arg \notin TreeKeys) =>
          /\ last'.err = "LookupError"
          /\ heap' = heap
          /\ root' = root]_vars

\* an update of an absent key on the empty tree
C8_Witness ==
    /\ last.op = "update"
    /\ last.err = "LookupError"
    /\ root = None

\* ---- C9 -------------------------------------------------------------------
\* the payload stored with key k
PayloadOf(h, r, k) ==
    LET n == CHOOSE x \in subtree(h, r) : h[x].key = k
    IN  h[n].value

\* C9: delete(K) preserves the key-to-payload association of every remaining
\* key, also when the in-order successor of the deleted node is excised: the
\* payload found for each remaining key is the one it had before the delete.
C9_DeleteKeepsPayloads ==
    [][(last'.op = "delete" /\ last'.err = NoError) =>
          \A k \in KeysIn(heap', root') :
              PayloadOf(heap', root', k) = PayloadOf(heap, root, k)]_vars

\* ---- C10 ------------------------------------------------------------------
\* the smallest and the largest element of a non-empty set of keys
Lowest(S) == CHOOSE k \in S : \A x \in S : k <= x
Highest(S) == CHOOSE k \in S : \A x \in S : k >= x

\* C10: on a non-empty tree boundary(LOWEST_KEY) returns the smallest key in
\* the tree and boundary(HIGHEST_KEY) the largest; on an empty tree boundary
\* returns None.
C10_Boundary ==
    (last.op = "boundary" /\ last.arg \in {LOWEST_KEY, HIGHEST_KEY}) =>
        /\ last.err = NoError
        /\ IF TreeKeys = {} THEN last.ret = <<>>
           ELSE /\ Len(last.ret) = 1
                /\ last.ret[1].key = IF last.arg = LOWEST_KEY
                                     THEN Lowest(TreeKeys)
                                     ELSE Highest(TreeKeys)

\* ---- C11 ------------------------------------------------------------------
\* C11: for a fresh debug tree, inserting distinct keys in any order with
\* validate(TREE_INSERT) after each insert, then deleting the keys in any
\* order with validate(TREE_DELETE) after each delete, never makes validate
\* raise an error (cycle, red-red, order, black-height or node count).
C11_ValidateNeverRaises ==
    last.op = "validate" => last.err = NoError

\* a validate after a delete that ran the delete fixup, on a tree of at
\* least four keys whose nodes were all counted
C11_Witness ==
    /\ last.op = "validate"
    /\ last.arg = TREE_DELETE
    /\ Cardinality(TreeKeys) >= 4
    /\ max_nodes[ACTUAL] = Cardinality(TreeKeys)
    /\ max_nodes[REPORTED] = Cardinality(TreeKeys)

\* ---- C12 ------------------------------------------------------------------
\* the four invariants of a tree with heap h and root r
Ordered(h, r) ==
    \A n \in subtree(h, r) :
        /\ \A k \in KeysIn(h, h[n].child[LEFT]) : k < h[n].key
        /\ \A k \in KeysIn(h, h[n].child[RIGHT]) : k > h[n].key

NoRedRed(h, r) ==
    \A n \in subtree(h, r) :
        h[n].color = RED =>
            /\ h[h[n].child[LEFT]].color = BLACK
            /\ h[h[n].child[RIGHT]].color = BLACK

Balanced(h, r) ==
    \A n \in subtree(h, r) : Cardinality(black_counts(h, n)) = 1

BlackRoot(h, r) == r # None => ~is_nil(h, r) /\ h[r].color = BLACK

\* insert(k) followed immediately by delete(k)
InsertThenDelete(k) ==
    LET a == insert(M, k, None)
        b == delete([a.m EXCEPT !.path = {}, !.rot = 0, !.steps = 0], k)
    IN  [err |-> <<a.err, b.err>>, m |-> b.m]

\* C12: for every reachable tree and every key K not in it, insert(K)
\* followed immediately by delete(K) yields a tree whose key set is the key
\* set before the insert and which satisfies the order, no-red-red,
\* black-height and black-root invariants.
C12_InsertDeleteRoundTrip ==
    \A k \in Keys \ TreeKeys :
        LET r == InsertThenDelete(k)
        IN  /\ r.err = <<NoError, NoError>>
            /\ KeysIn(r.m.h, r.m.root) = TreeKeys
            /\ Cardinality(subtree(r.m.h, r.m.root)) = Cardinality(TreeKeys)
            /\ Ordered(r.m.h, r.m.root)
            /\ NoRedRed(r.m.h, r.m.root)
            /\ Balanced(r.m.h, r.m.root)
            /\ BlackRoot(r.m.h, r.m.root)

\* a tree and a key for which the insert rotates and the round trip ends in
\* a tree other than the one it started from
C12_Witness ==
    /\ root # None
    /\ \E k \in Keys \ TreeKeys :
          LET a == insert(M, k, None)
              c == collect(InsertThenDelete(k).m)
          IN  /\ a.m.rot > 0
              /\ <<c.h, c.root>> # <<heap, root>>

\* ---- C13 ------------------------------------------------------------------
\* the largest depth a traversal reported (0 for no call)
Height(calls) ==
    IF calls = <<>> THEN 0
    ELSE CHOOSE d \in {calls[i].depth : i \in 1 .. Len(calls)} :
             \A i \in 1 .. Len(calls) : calls[i].depth <= d

\* C13: after inserting any sequence of N distinct keys into an empty tree,
\* the height h of the tree (the largest depth traverse reports, root = 1)
\* satisfies h <= 2*log2(N+1), that is 2^h <= (N+1)^2.
C13_HeightBound ==
    last.op = "traverse" =>
        2 ^ Height(last.ret)
            <= (Cardinality(inserted) + 1) * (Cardinality(inserted) + 1)

\* a traversal of a tree of MaxKey keys that is four levels deep
C13_Witness ==
    /\ last.op = "traverse"
    /\ Cardinality(inserted) = MaxKey
    /\ Len(last.ret) = MaxKey
    /\ Height(last.ret) >= 4

\* ---- C14 ------------------------------------------------------------------
\* the calls a traversal of the subtree of n owes, n being at the given
\* depth: n before, between or after its LEFT and its RIGHT subtree
RECURSIVE Walk(_, _, _, _)
Walk(h, n, depth, order) ==
    IF is_nil(h, n) THEN <<>>
    ELSE LET own == << [key |-> h[n].key, depth |-> depth,
                        color |-> h[n].color] >>
             l == Walk(h, h[n].child[LEFT], depth + 1, order)
             r == Walk(h, h[n].child[RIGHT], depth + 1, order)
         IN  IF order = PRE_ORDER THEN own \o l \o r
             ELSE IF order = IN_ORDER THEN l \o own \o r
             ELSE l \o r \o own

\* C14: for each of PRE_ORDER, IN_ORDER and POST_ORDER and every reachable
\* tree, traverse invokes the callback exactly once per real node; the depth
\* reported is 1 for the root and depth(parent)+1 for every other node; in
\* PRE_ORDER a node comes before all nodes of its subtrees and in POST_ORDER
\* after them, the LEFT subtree before the RIGHT subtree.
C14_TraverseOrders ==
    last.op = "traverse" =>
        /\ last.err = NoError
        /\ last.ret = IF root = None THEN <<>>
                      ELSE Walk(heap, root, 1, last.arg)

\* a POST_ORDER traversal of a tree whose root has both subtrees and which
\* is at least three levels deep
C14_Witness ==
    /\ last.op = "traverse"
    /\ last.arg = POST_ORDER
    /\ Len(last.ret) >= 5
    /\ Height(last.ret) >= 3
    /\ KeysIn(heap, heap[root].child[LEFT]) # {}
    /\ KeysIn(heap, heap[root].child[RIGHT]) # {}

\* ---- C15 ------------------------------------------------------------------
\* C15: update(K, p) for a key K present in the tree changes only the payload
\* of the node holding K: the root reference, every node's key, colour,
\* parent and children and every other node's payload are unchanged, and
\* afterwards find(K) yields payload p.
C15_UpdateFrame ==
    [][\A k \in PayloadKeys, p \in Payloads :
          (Update(k, p) /\ k \in TreeKeys) =>
              /\ last'.err = NoError
              /\ root' = root
              /\ DOMAIN heap' = DOMAIN heap
              /\ \A n \in DOMAIN heap :
                    heap'[n] = IF heap[n].key = k
                               THEN [heap[n] EXCEPT !.value = p]
                               ELSE heap[n]
              /\ LET f == find([h |-> heap', root |-> root'], k, None)
                 IN  f.err = NoError /\ heap'[f.node].value = p]_vars

\* an update that succeeded on a key below the root of a three-key tree in
\* which the keys do not all carry the same payload
C15_Witness ==
    /\ last.op = "update"
    /\ last.err = NoError
    /\ Cardinality(TreeKeys) = 3
    /\ heap[root].key # last.arg
    /\ \E n \in subtree(heap, root) : heap[n].value # heap[root].value

\* ---- C16 ------------------------------------------------------------------
\* every nil terminator below the root is BLACK
NilsBlack(h, r) ==
    \A n \in subtree(h, r) :
        \A d \in {LEFT, RIGHT} :
            is_nil(h, h[n].child[d]) => h[h[n].child[d]].color = BLACK

\* the tree satisfies the invariants and holds the reported number of nodes
Sound ==
    /\ Ordered(heap, root)
    /\ Cardinality(KeysIn(heap, root)) = Cardinality(subtree(heap, root))
    /\ NoRedRed(heap, root)
    /\ Balanced(heap, root)
    /\ BlackRoot(heap, root)
    /\ NilsBlack(heap, root)
    /\ max_nodes[REPORTED] = Cardinality(subtree(heap, root))

Nils(h, r) ==
    {h[n].child[d] : n \in subtree(h, r), d \in {LEFT, RIGHT}}
        \ (subtree(h, r) \cup {None})

\* C17: after any sequence of successful insert and delete calls, every real
\* node reachable from the root has a node in both child slots, every nil
\* terminator reachable from the root is BLACK and has neither key nor
\* children, and no fixup step of the last call coloured a nil terminator
\* RED.
C17_NilTerminators ==
    /\ \A n \in subtree(heap, root) :
         \A d \in {LEFT, RIGHT} : heap[n].child[d] \in DOMAIN heap
    /\ \A t \in Nils(heap, root) :
         /\ heap[t].color = BLACK
         /\ heap[t].key = None
         /\ heap[t].child = [d \in {LEFT, RIGHT} |-> None]
    /\ "nil_red" \notin last.path

\* a delete whose fixup started at a nil terminator and recoloured a sibling
C17_Witness ==
    /\ Deleted
    /\ {"excised_black", "delete_case2"} \subseteq last.path
    /\ Cardinality(Nils(heap, root)) >= 4

\* ---- C18 ------------------------------------------------------------------
\* the tree object a caller holds
Tree == [h |-> heap, root |-> root]

\* the tree after the inserts of the keys of ks, in that order, into Tree()
RECURSIVE Inserts(_)
Inserts(ks) ==
    IF ks = <<>> THEN [h |-> <<>>, root |-> None]
    ELSE LET t == Inserts(SubSeq(ks, 1, Len(ks) - 1))
         IN  collect(insert([h |-> t.h, root |-> t.root, path |-> {},
                             rot |-> 0, steps |-> 0], ks[Len(ks)], None).m)

\* the root holds b and is BLACK, its children hold a and c and are RED
\* leaves
Three(a, b, c) ==
    /\ root # None
    /\ heap[root].key = b /\ heap[root].color = BLACK
    /\ LET l == heap[root].child[LEFT]
           r == heap[root].child[RIGHT]
       IN  /\ heap[l].key = a /\ heap[l].color = RED
           /\ heap[r].key = c /\ heap[r].color = RED
           /\ \A n \in {l, r} : \A d \in {LEFT, RIGHT} :
                is_nil(heap, heap[n].child[d])

\* C18: the tree made by the inserts of three keys a < b < c in ascending
\* order into an empty tree has the root b coloured BLACK with a as RED
\* left child and c as RED right child; delete(b) on it leaves a valid tree
\* of the two nodes a and c, and the validate that follows raises nothing.
C18_Example ==
    [][\A a, b, c \in Keys :
         (a < b /\ b < c /\ Tree = Inserts(<<a, b, c>>)) =>
            /\ Three(a, b, c)
            /\ Delete(b) =>
                 /\ last'.err = NoError
                 /\ KeysIn(heap', root') = {a, c}
                 /\ Cardinality(subtree(heap', root')) = 2
                 /\ Ordered(heap', root') /\ NoRedRed(heap', root')
                 /\ Balanced(heap', root') /\ BlackRoot(heap', root')
                 /\ validate([h |-> heap', root |-> root', path |-> {},
                              rot |-> 0, steps |-> 0],
                             [debug |-> debug', vals |-> vals',
                              max_nodes |-> max_nodes'],
                             TREE_DELETE).err = NoError]_vars

\* validate has passed on the two-node tree left by delete(b) after the
\* inserts of a, b, c
C18_Witness ==
    /\ last.op = "validate" /\ last.arg = TREE_DELETE /\ last.err = NoError
    /\ max_nodes[REPORTED] = 2 /\ max_nodes[ACTUAL] = 2
    /\ \E a, b, c \in Keys :
         /\ a < b /\ b < c
         /\ LET t == Inserts(<<a, b, c>>)
            IN  Tree = collect(delete([h |-> t.h, root |-> t.root,
                                       path |-> {}, rot |-> 0, steps |-> 0], b).m)

\* ---- C19 ------------------------------------------------------------------
\* C19: boundary called with a selector other than LOWEST_KEY and
\* HIGHEST_KEY fails with the invalid-argument error (the KeyError of
\* boundary) whatever the tree holds, the empty tree included.
C19_InvalidSelector ==
    (last.op = "boundary" /\ last.arg \notin {LOWEST_KEY, HIGHEST_KEY}) =>
        last.err = "KeyError"

\* ---- C20 ------------------------------------------------------------------
\* C20: after any sequence of successful insert and delete calls the root's
\* parent is None, the parent of either child of a real node below the root
\* is that node, nil terminators included, and no node is met twice on the
\* way down from the root: no node hangs in two child slots and the root
\* hangs in none.
C20_Links ==
    /\ root # None => heap[root].parent = None
    /\ \A n \in subtree(heap, root) :
         \A d \in {LEFT, RIGHT} :
            /\ heap[heap[n].child[d]].parent = n
            /\ heap[n].child[d] # root
            /\ \A n2 \in subtree(heap, root) :
                 \A d2 \in {LEFT, RIGHT} :
                    heap[n2].child[d2] = heap[n].child[d]
                        => (n2 = n /\ d2 = d)

\* a delete of a node with two children whose fixup rotated twice
C20_Witness ==
    /\ Deleted
    /\ {"successor", "delete_case3", "delete_case4"} \subseteq last.path
    /\ Cardinality(TreeKeys) >= 4

\* ---- C21 ------------------------------------------------------------------
\* the ways a loop of a call can fail to reach its exit: it runs on, or it
\* uses a missing parent, grandparent, sibling or child
Stuck == {"hang", "AttributeError", "ValueError"}

\* C21: on every tree reachable by insert and delete, each call of insert,
\* delete and traverse comes to its end: the insert-fixup loop, the
\* delete-fixup loop, the successor search and the traversal loop leave at
\* their exit condition, none runs on and none uses a missing node.
C21_Terminates ==
    last.op \in {"insert", "delete", "traverse"} =>
        /\ last.err \notin Stuck
        /\ last.path \cap Stuck = {}

\* a delete that ran the successor search and a fixup iteration with a
\* rotation that handed the focus on to the parent
C21_Witness ==
    /\ Deleted
    /\ {"successor", "delete_case1", "delete_case2"} \subseteq last.path
    /\ last.path \cap Stuck = {}

\* ---- C22 ------------------------------------------------------------------
\* C22: on every tree reachable by insert and delete one insert makes at
\* most 2 rotations and one delete at most 3, and none of the cases that
\* rotate (insert cases 2 and 3, delete cases 1, 3 and 4) runs twice in one
\* call: insert case 3 and delete case 4 end their loops, and only the
\* recolouring cases, insert case 1 and delete case 2, can come again.
C22_Rotations ==
    [][/\ last'.op = "insert" =>
            /\ insert(M, last'.arg, None).m.rot <= 2
            /\ "rotating_case_repeated" \notin last'.path
       /\ last'.op = "delete" =>
            /\ delete(M, last'.arg).m.rot <= 3
            /\ "rotating_case_repeated" \notin last'.path]_vars

\* a delete whose fixup ran cases 1, 3 and 4, three rotations
C22_Witness ==
    /\ Deleted
    /\ {"delete_case1", "delete_case3", "delete_case4"} \subseteq last.path

\* ---- C23 ------------------------------------------------------------------
\* the real nodes below n from left to right
RECURSIVE InOrder(_, _)
InOrder(h, n) ==
    IF n = None THEN <<>>
    ELSE IF is_nil(h, n) THEN <<>>
    ELSE InOrder(h, h[n].child[LEFT]) \o <<n>> \o InOrder(h, h[n].child[RIGHT])

\* C23: a rotation of a focus whose child on the side opposite to the
\* direction is a real node keeps the in-order sequence of the nodes, and
\* with it of the keys, of the whole tree, keeps the key, payload and colour
\* of every node, and changes no node but the focus, the promoted child,
\* the promoted child's inner sub-child and the focus's former parent; the
\* root reference changes only when the focus was the root, to the promoted
\* child.
C23_RotateFrame ==
    [][\A nFocus \in DOMAIN heap, OBV \in {LEFT, RIGHT} :
         Rotate(nFocus, OBV) =>
            LET nChild == heap[nFocus].child[1 - OBV]
                sub == heap[nChild].child[OBV]
                par == heap[nFocus].parent
            IN  /\ DOMAIN heap' = DOMAIN heap
                /\ InOrder(heap', root') = InOrder(heap, root)
                /\ \A x \in DOMAIN heap :
                     /\ heap'[x].key = heap[x].key
                     /\ heap'[x].value = heap[x].value
                     /\ heap'[x].color = heap[x].color
                /\ \A x \in DOMAIN heap \ {nFocus, nChild, sub, par} :
                     heap'[x] = heap[x]
                /\ heap'[nFocus].child[OBV] = heap[nFocus].child[OBV]
                /\ heap'[nChild].child[1 - OBV] = heap[nChild].child[1 - OBV]
                /\ heap'[sub].child = heap[sub].child
                /\ root' = IF par = None THEN nChild ELSE root]_vars

\* a rotation below the root that moved a real inner subtree
C23_Witness ==
    /\ last.op = "rotate"
    /\ root # None
    /\ last.arg # root
    /\ heap[last.arg].parent # root
    /\ \E d \in {LEFT, RIGHT} :
         /\ ~is_nil(heap, heap[last.arg].child[d])
         /\ heap[last.arg].child[1 - d] # None
         /\ ~is_nil(heap, heap[last.arg].child[1 - d])

\* ---- C24 ------------------------------------------------------------------
\* C24: on a debug tree with validate(TREE_INSERT) after every successful
\* insert and validate(TREE_DELETE) after every successful delete, in any
\* order and also when the tree is emptied and filled again, the expected
\* node count equals the number of keys in the tree after every validate,
\* and validate never raises the node-count mismatch (ArithmeticError).
C24_ReportedCount ==
    last.op = "validate" =>
        /\ max_nodes[REPORTED] = Cardinality(TreeKeys)
        /\ last.err # "ArithmeticError"

====
